---------------------------- MODULE Spec2Model ----------------------------
(***************************************************************************)
(* A model of the time zone converter widget                               *)
(* (src/src/components/TimeZoneConverter.js): the component state, its     *)
(* event handlers, the start-up effect that reads the `state` query        *)
(* parameter, and the share-link codec (toISOString, JSON.stringify, btoa, *)
(* URLSearchParams.get, atob, JSON.parse, new Date).                       *)
(*                                                                         *)
(* JavaScript strings are modelled as sequences of character codes, so     *)
(* that the text transforms work on characters as the platform does.       *)
(***************************************************************************)
EXTENDS Integers, Sequences, FiniteSets, TLC

(***************************************************************************)
(* Text: character codes of the printable ASCII range.                     *)
(***************************************************************************)
\* the printable characters as one-character strings: PrintableChars[i] has
\* code i + 31 (a string literal cannot hold code 96, the grave accent)
PrintableChars == <<
  " ", "!", "\"", "#", "$", "%", "&", "'", "(", ")", "*", "+", ",", "-", ".", "/",
  "0", "1", "2", "3", "4", "5", "6", "7", "8", "9", ":", ";", "<", "=", ">", "?",
  "@", "A", "B", "C", "D", "E", "F", "G", "H", "I", "J", "K", "L", "M", "N", "O",
  "P", "Q", "R", "S", "T", "U", "V", "W", "X", "Y", "Z", "[", "\\", "]", "^", "_",
  "<grave accent>", "a", "b", "c", "d", "e", "f", "g", "h", "i", "j", "k", "l", "m", "n", "o",
  "p", "q", "r", "s", "t", "u", "v", "w", "x", "y", "z", "{", "|", "}", "~" >>

\* character code of a one-character string
CodeOf(c) == 31 + CHOOSE i \in 1..95 : PrintableChars[i] = c

\* a string literal as its sequence of character codes
S(str) == <<>> \o [i \in 1..Len(str) |-> CodeOf(SubSeq(str, i, i))]

RECURSIVE Text(_)
\* a sequence of printable character codes as a string value (built by halves)
Text(codes) ==
  IF codes = <<>> THEN ""
  ELSE IF Len(codes) = 1 THEN PrintableChars[codes[1] - 31]
  ELSE Text(SubSeq(codes, 1, Len(codes) \div 2))
       \o Text(SubSeq(codes, (Len(codes) \div 2) + 1, Len(codes)))

IsPrintable(codes) == \A i \in 1..Len(codes) : codes[i] \in 32..126

RECURSIVE Flatten(_)
\* concatenation of a sequence of sequences (built by halves)
Flatten(parts) ==
  IF parts = <<>> THEN <<>>
  ELSE IF Len(parts) = 1 THEN parts[1]
  ELSE Flatten(SubSeq(parts, 1, Len(parts) \div 2))
       \o Flatten(SubSeq(parts, (Len(parts) \div 2) + 1, Len(parts)))

(***************************************************************************)
(* btoa / atob: base64 with padding over the alphabet A-Z a-z 0-9 + /.     *)
(***************************************************************************)
Base64Alphabet ==
  S("ABCDEFGHIJKLMNOPQRSTUVWXYZabcdefghijklmnopqrstuvwxyz0123456789+/")

PadChar == 61              \* "="

\* the 6-bit value of a base64 character (its place in Base64Alphabet), or -1
Base64Index(c) ==
  IF c \in 65..90 THEN c - 65
  ELSE IF c \in 97..122 THEN c - 71
  ELSE IF c \in 48..57 THEN c + 4
  ELSE IF c = 43 THEN 62
  ELSE IF c = 47 THEN 63
  ELSE -1

\* the k-th output character (from 1) of the encoding of bytes: every three
\* bytes give four characters, a last group of one or two bytes is padded
Base64Char(bytes, k) ==
  LET g  == (k - 1) \div 4
      r  == (k - 1) % 4
      n  == Len(bytes)
      b1 == bytes[3 * g + 1]
      b2 == IF 3 * g + 2 <= n THEN bytes[3 * g + 2] ELSE 0
      b3 == IF 3 * g + 3 <= n THEN bytes[3 * g + 3] ELSE 0
  IN  IF r = 0 THEN Base64Alphabet[(b1 \div 4) + 1]
      ELSE IF r = 1 THEN Base64Alphabet[((b1 % 4) * 16 + (b2 \div 16)) + 1]
      ELSE IF r = 2 THEN
        IF 3 * g + 2 > n THEN PadChar
        ELSE Base64Alphabet[((b2 % 16) * 4 + (b3 \div 64)) + 1]
      ELSE
        IF 3 * g + 3 > n THEN PadChar
        ELSE Base64Alphabet[(b3 % 64) + 1]

Base64Encode(bytes) ==
  <<>> \o [k \in 1..(4 * ((Len(bytes) + 2) \div 3)) |-> Base64Char(bytes, k)]

\* btoa(str): throws when a character is outside Latin-1
btoa(str) ==
  IF \E i \in 1..Len(str) : str[i] > 255
  THEN [ok |-> FALSE, v |-> <<>>]
  ELSE [ok |-> TRUE, v |-> Base64Encode(str)]

IsAsciiWhitespace(c) == c \in {9, 10, 12, 13, 32}

NotWhitespace(c) == ~IsAsciiWhitespace(c)

\* the k-th byte (from 1) of the decoding of the 6-bit values ix: every four
\* values give three bytes
Base64Byte(ix, k) ==
  LET g == (k - 1) \div 3
      r == (k - 1) % 3
  IN  IF r = 0 THEN ix[4 * g + 1] * 4 + (ix[4 * g + 2] \div 16)
      ELSE IF r = 1 THEN (ix[4 * g + 2] % 16) * 16 + (ix[4 * g + 3] \div 4)
      ELSE (ix[4 * g + 3] % 4) * 64 + ix[4 * g + 4]

\* a last group of two or three values gives one or two bytes; its spare bits are dropped
Base64Decode(ix) ==
  <<>> \o [k \in 1..((Len(ix) * 3) \div 4) |-> Base64Byte(ix, k)]

\* the decoding of the characters left after the padding is removed
DecodeUnpadded(unpadded, ix) ==
  IF Len(unpadded) % 4 = 1 \/ (\E i \in 1..Len(ix) : ix[i] < 0)
  THEN [ok |-> FALSE, v |-> <<>>]
  ELSE [ok |-> TRUE, v |-> Base64Decode(ix)]

\* one or two "=" end a text whose length is a multiple of four
RemovePadding(stripped) ==
  IF Len(stripped) > 0 /\ Len(stripped) % 4 = 0 /\ stripped[Len(stripped)] = PadChar
  THEN IF stripped[Len(stripped) - 1] = PadChar
       THEN SubSeq(stripped, 1, Len(stripped) - 2)
       ELSE SubSeq(stripped, 1, Len(stripped) - 1)
  ELSE stripped

Base64Indices(unpadded) ==
  <<>> \o [i \in 1..Len(unpadded) |-> Base64Index(unpadded[i])]

DecodeStripped(unpadded) == DecodeUnpadded(unpadded, Base64Indices(unpadded))

\* atob(data): the forgiving base64 decode (whitespace is removed first);
\* ok = FALSE models InvalidCharacterError
atob(data) == DecodeStripped(RemovePadding(SelectSeq(data, NotWhitespace)))

(***************************************************************************)
(* Date: a time value is milliseconds since the epoch, kept as whole days  *)
(* (d) and milliseconds within the day (ms) so that every intermediate     *)
(* fits TLC's 32-bit integers; nan marks an Invalid Date.                   *)
(***************************************************************************)
MsPerDay == 86400000

MsPerMinute == 60000

MsPerHour == 3600000

\* the largest time value is 8.64e15 ms = MaxDateDays days either side of the epoch
MaxDateDays == 100000000

NaN == [nan |-> TRUE, d |-> 0, ms |-> 0]

\* TimeClip: a time value outside the Date range is NaN
TimeClip(d, ms) ==
  IF d < -MaxDateDays \/ d > MaxDateDays \/ (d = MaxDateDays /\ ms > 0)
  THEN NaN
  ELSE [nan |-> FALSE, d |-> d, ms |-> ms]

\* new Date(days * MsPerDay + ms) for a millisecond count given in two parts
DateOf(days, ms) == TimeClip(days + (ms \div MsPerDay), ms % MsPerDay)

\* new Date(t.getTime() + delta)
AddMs(t, delta) ==
  IF t.nan THEN NaN ELSE DateOf(t.d, t.ms + delta)

\* a.getTime() - b.getTime() in minutes, for two valid dates a whole number of minutes apart
DiffMinutes(a, b) ==
  (a.d - b.d) * 1440 + ((a.ms - b.ms) \div MsPerMinute)

\* year, month and day of a day number (proleptic Gregorian calendar)
CivilFromDays(days) ==
  LET z   == days + 719468
      era == z \div 146097
      doe == z - era * 146097
      yoe == (doe - (doe \div 1460) + (doe \div 36524) - (doe \div 146096)) \div 365
      doy == doe - (365 * yoe + (yoe \div 4) - (yoe \div 100))
      mp  == (5 * doy + 2) \div 153
      m   == IF mp < 10 THEN mp + 3 ELSE mp - 9
  IN  [y |-> yoe + era * 400 + (IF m <= 2 THEN 1 ELSE 0),
       m |-> m,
       day |-> doy - ((153 * mp + 2) \div 5) + 1]

\* day number of a calendar date
DaysFromCivil(y, m, day) ==
  LET yy  == IF m <= 2 THEN y - 1 ELSE y
      era == yy \div 400
      yoe == yy - era * 400
      mp  == IF m > 2 THEN m - 3 ELSE m + 9
      doy == ((153 * mp + 2) \div 5) + day - 1
      doe == yoe * 365 + (yoe \div 4) - (yoe \div 100) + doy
  IN  era * 146097 + doe - 719468

IsLeapYear(y) == (y % 4 = 0 /\ y % 100 # 0) \/ y % 400 = 0

DaysInMonth(y, m) ==
  IF m = 2 THEN (IF IsLeapYear(y) THEN 29 ELSE 28)
  ELSE IF m \in {4, 6, 9, 11} THEN 30 ELSE 31

RECURSIVE Pad(_, _)
\* the decimal digits of n >= 0, zero-padded to width characters
Pad(n, width) ==
  IF width = 0 THEN <<>>
  ELSE Pad(n \div 10, width - 1) \o << 48 + (n % 10) >>

IsDigits(codes) == \A i \in 1..Len(codes) : codes[i] \in 48..57

RECURSIVE DigitsValue(_)
\* the number written by a sequence of digit characters
DigitsValue(codes) ==
  IF codes = <<>> THEN 0
  ELSE DigitsValue(SubSeq(codes, 1, Len(codes) - 1)) * 10 + (codes[Len(codes)] - 48)

\* the text of a calendar date c and the milliseconds ms of its day
\* a rendering that stops at the seconds
ISOTextSeconds(c, ms) ==
  (IF c.y \in 0..9999 THEN Pad(c.y, 4)
   ELSE IF c.y < 0 THEN S("-") \o Pad(-c.y, 6)
   ELSE S("+") \o Pad(c.y, 6))
  \o S("-") \o Pad(c.m, 2) \o S("-") \o Pad(c.day, 2)
  \o S("T") \o Pad(ms \div MsPerHour, 2)
  \o S(":") \o Pad((ms \div MsPerMinute) % 60, 2)
  \o S(":") \o Pad((ms \div 1000) % 60, 2) \o S("Z")

ISOText(c, ms) ==
  (IF c.y \in 0..9999 THEN Pad(c.y, 4)
   ELSE IF c.y < 0 THEN S("-") \o Pad(-c.y, 6)
   ELSE S("+") \o Pad(c.y, 6))
  \o S("-") \o Pad(c.m, 2) \o S("-") \o Pad(c.day, 2)
  \o S("T") \o Pad(ms \div MsPerHour, 2)
  \o S(":") \o Pad((ms \div MsPerMinute) % 60, 2)
  \o S(":") \o Pad((ms \div 1000) % 60, 2)
  \o S(".") \o Pad(ms % 1000, 3) \o S("Z")

\* Date.prototype.toISOString: YYYY-MM-DDTHH:mm:ss.sssZ, with a signed six-digit
\* year outside 0..9999; ok = FALSE models the RangeError of an Invalid Date
toISOString(t) ==
  IF t.nan THEN [ok |-> FALSE, v |-> <<>>]
  ELSE [ok |-> TRUE, v |-> ISOText(CivilFromDays(t.d), t.ms)]

\* the time part THH:mm:ss.sssZ as milliseconds of the day, -1 when malformed
ParseTimePart(str) ==
  IF Len(str) = 14 /\ str[1] = 84 /\ str[4] = 58 /\ str[7] = 58 /\ str[10] = 46
     /\ str[14] = 90
     /\ IsDigits(SubSeq(str, 2, 3)) /\ IsDigits(SubSeq(str, 5, 6))
     /\ IsDigits(SubSeq(str, 8, 9)) /\ IsDigits(SubSeq(str, 11, 13))
  THEN LET h   == DigitsValue(SubSeq(str, 2, 3))
           mi  == DigitsValue(SubSeq(str, 5, 6))
           sec == DigitsValue(SubSeq(str, 8, 9))
           ms  == DigitsValue(SubSeq(str, 11, 13))
       IN IF (h <= 23 /\ mi <= 59 /\ sec <= 59)
             \/ (h = 24 /\ mi = 0 /\ sec = 0 /\ ms = 0)
          THEN h * MsPerHour + mi * MsPerMinute + sec * 1000 + ms
          ELSE -1
  ELSE -1

\* Date.parse of the date-time string format (the form toISOString writes, and
\* the date-only form); every other text is taken as unparseable.  The strings
\* the model draws are of this format or are not dates at all.
DateParse(str) ==
  LET signed  == Len(str) > 0 /\ str[1] \in {43, 45}
      ylen    == IF signed THEN 7 ELSE 4
      dateLen == ylen + 6
  IN  IF Len(str) >= dateLen
         /\ IsDigits(SubSeq(str, IF signed THEN 2 ELSE 1, ylen))
         /\ str[ylen + 1] = 45 /\ IsDigits(SubSeq(str, ylen + 2, ylen + 3))
         /\ str[ylen + 4] = 45 /\ IsDigits(SubSeq(str, ylen + 5, ylen + 6))
      THEN
        LET mag  == DigitsValue(SubSeq(str, IF signed THEN 2 ELSE 1, ylen))
            y    == IF signed /\ str[1] = 45 THEN -mag ELSE mag
            m    == DigitsValue(SubSeq(str, ylen + 2, ylen + 3))
            day  == DigitsValue(SubSeq(str, ylen + 5, ylen + 6))
            rest == SubSeq(str, dateLen + 1, Len(str))
            ms   == IF rest = <<>> THEN 0 ELSE ParseTimePart(rest)
        IN IF m \in 1..12 /\ day >= 1 /\ day <= DaysInMonth(y, m) /\ ms >= 0
              /\ ~(signed /\ str[1] = 45 /\ mag = 0)
           THEN DateOf(DaysFromCivil(y, m, day), ms)
           ELSE NaN
      ELSE NaN

(***************************************************************************)
(* JavaScript values.  A value is a record tagged by its type; a string    *)
(* holds its text (printable ASCII), a number its integer value, an array  *)
(* its items and an object its members in source order.                    *)
(***************************************************************************)
Undefined == [t |-> "undefined"]

Null == [t |-> "null"]

Bool(b) == [t |-> "boolean", b |-> b]

Num(n) == [t |-> "number", n |-> n]

Str(s) == [t |-> "string", s |-> s]

Arr(items) == [t |-> "array", items |-> items]

Obj(members) == [t |-> "object", members |-> members]

\* a === b for the values compared in this program (objects and arrays are
\* compared by identity and are never identical to a parsed value's parts)
StrictEquals(a, b) ==
  /\ a.t = b.t
  /\ CASE a.t = "string"  -> a.s = b.s
       [] a.t = "number"  -> a.n = b.n
       [] a.t = "boolean" -> a.b = b.b
       [] a.t \in {"undefined", "null"} -> TRUE
       [] OTHER -> FALSE

\* ToBoolean: undefined, null, false, 0 and "" are falsy
Truthy(v) ==
  CASE v.t \in {"undefined", "null"} -> FALSE
    [] v.t = "boolean" -> v.b
    [] v.t = "number"  -> v.n # 0
    [] v.t = "string"  -> v.s # ""
    [] OTHER -> TRUE

\* value.key: the member of an object (the last one wins), undefined on every
\* other non-null value; ok = FALSE models the TypeError on null and undefined
GetProperty(v, key) ==
  IF v.t \in {"undefined", "null"} THEN [ok |-> FALSE, v |-> Undefined]
  ELSE IF v.t = "object"
          /\ \E i \in 1..Len(v.members) : v.members[i].k = key
  THEN LET last == CHOOSE i \in 1..Len(v.members) :
                     /\ v.members[i].k = key
                     /\ \A j \in (i + 1)..Len(v.members) : v.members[j].k # key
       IN [ok |-> TRUE, v |-> v.members[last].v]
  ELSE [ok |-> TRUE, v |-> Undefined]

\* the decimal text of an integer
RECURSIVE NatText(_)
NatText(n) == IF n < 10 THEN << 48 + n >> ELSE NatText(n \div 10) \o << 48 + (n % 10) >>

IntText(n) == IF n < 0 THEN S("-") \o NatText(-n) ELSE NatText(n)

RECURSIVE ToStringJS(_)
\* String(v), as the Date constructor applies it to a non-number argument
ToStringJS(v) ==
  CASE v.t = "string"    -> S(v.s)
    [] v.t = "number"    -> IntText(v.n)
    [] v.t = "boolean"   -> IF v.b THEN S("true") ELSE S("false")
    [] v.t = "null"      -> S("null")
    [] v.t = "undefined" -> S("undefined")
    [] v.t = "object"    -> S("[object Object]")
    [] v.t = "array"     ->
         Flatten([i \in 1..Len(v.items) |->
           (IF i > 1 THEN S(",") ELSE <<>>)
           \o (IF v.items[i].t \in {"null", "undefined"} THEN <<>>
               ELSE ToStringJS(v.items[i]))])

\* new Date(value)
NewDate(v) ==
  CASE v.t = "number"    -> DateOf(0, v.n)
    [] v.t = "boolean"   -> DateOf(0, IF v.b THEN 1 ELSE 0)
    [] v.t = "null"      -> DateOf(0, 0)
    [] v.t = "undefined" -> NaN
    [] OTHER             -> DateParse(ToStringJS(v))

(***************************************************************************)
(* JSON.stringify                                                          *)
(***************************************************************************)
RECURSIVE QuoteJSON(_)
\* the body of a JSON string literal: the quote and the backslash are escaped
QuoteJSON(codes) ==
  IF codes = <<>> THEN <<>>
  ELSE (IF Head(codes) \in {34, 92} THEN << 92, Head(codes) >> ELSE << Head(codes) >>)
       \o QuoteJSON(Tail(codes))

RECURSIVE JSONStringify(_)
JSONStringify(v) ==
  CASE v.t = "string"    -> S("\"") \o QuoteJSON(S(v.s)) \o S("\"")
    [] v.t = "number"    -> IntText(v.n)
    [] v.t = "boolean"   -> IF v.b THEN S("true") ELSE S("false")
    [] v.t \in {"null", "undefined"} -> S("null")
    [] v.t = "array"     ->
         S("[")
         \o Flatten([i \in 1..Len(v.items) |->
              (IF i > 1 THEN S(",") ELSE <<>>) \o JSONStringify(v.items[i])])
         \o S("]")
    [] v.t = "object"    ->
         S("{")
         \o Flatten([i \in 1..Len(v.members) |->
              (IF i > 1 THEN S(",") ELSE <<>>)
              \o S("\"") \o QuoteJSON(S(v.members[i].k)) \o S("\":")
              \o JSONStringify(v.members[i].v)])
         \o S("}")

(***************************************************************************)
(* JSON.parse: a recursive-descent parser.  A result is                    *)
(* [ok, val, pos]; pos is the index after the parsed text. ok = FALSE      *)
(* models the SyntaxError.  String literals hold printable ASCII and the   *)
(* escapes \" \\ \/; numbers are integers.                                 *)
(***************************************************************************)
ParseFail == [ok |-> FALSE, val |-> Undefined, pos |-> 0]

IsJSONWhitespace(c) == c \in {9, 10, 13, 32}

RECURSIVE SkipWs(_, _)
\* the first index at or after pos that holds no whitespace (Len(str) + 1 at the end)
SkipWs(str, pos) ==
  IF pos <= Len(str) /\ IsJSONWhitespace(str[pos]) THEN SkipWs(str, pos + 1) ELSE pos

\* the character at pos, 0 past the end
At(str, pos) == IF pos \in 1..Len(str) THEN str[pos] ELSE 0

RECURSIVE ParseStringBody(_, _, _)
\* pos is after the opening quote; acc holds the characters read so far
ParseStringBody(str, pos, acc) ==
  IF At(str, pos) = 34 THEN [ok |-> TRUE, val |-> Str(Text(acc)), pos |-> pos + 1]
  ELSE IF At(str, pos) = 92 THEN
    IF At(str, pos + 1) \in {34, 92, 47}
    THEN ParseStringBody(str, pos + 2, Append(acc, At(str, pos + 1)))
    ELSE ParseFail
  ELSE IF At(str, pos) \in 32..126
  THEN ParseStringBody(str, pos + 1, Append(acc, At(str, pos)))
  ELSE ParseFail

\* the index after the run of digits that starts at pos
RECURSIVE DigitsEnd(_, _)
DigitsEnd(str, pos) ==
  IF At(str, pos) \in 48..57 THEN DigitsEnd(str, pos + 1) ELSE pos

\* the digits of a number run from start to end - 1; neg tells a leading "-"
NumberOf(str, neg, start, end) ==
  IF end = start \/ (end - start > 1 /\ str[start] = 48)
     \/ At(str, end) \in {46, 69, 101}
  THEN ParseFail
  ELSE [ok  |-> TRUE,
        val |-> Num((IF neg THEN -1 ELSE 1) * DigitsValue(SubSeq(str, start, end - 1))),
        pos |-> end]

ParseNumber(str, pos) ==
  IF At(str, pos) = 45
  THEN NumberOf(str, TRUE, pos + 1, DigitsEnd(str, pos + 1))
  ELSE NumberOf(str, FALSE, pos, DigitsEnd(str, pos))

StartsWith(str, pos, word) ==
  /\ pos + Len(word) - 1 <= Len(str)
  /\ SubSeq(str, pos, pos + Len(word) - 1) = word

RECURSIVE ParseValue(_, _)
RECURSIVE ParseElements(_, _, _)
RECURSIVE ParseMembers(_, _, _)

\* after an element and the whitespace behind it: "," or "]"
ElementsNext(str, p, items) ==
  IF At(str, p) = 44 THEN ParseElements(str, p + 1, items)
  ELSE IF At(str, p) = 93 THEN [ok |-> TRUE, val |-> Arr(items), pos |-> p + 1]
  ELSE ParseFail

ElementsAfter(str, r, acc) ==
  IF ~r.ok THEN ParseFail
  ELSE ElementsNext(str, SkipWs(str, r.pos), Append(acc, r.val))

\* pos is at an element of a non-empty array; acc holds the items read so far
ParseElements(str, pos, acc) == ElementsAfter(str, ParseValue(str, pos), acc)

\* after a member and the whitespace behind it: "," or "}"
MembersNext(str, q, all) ==
  IF At(str, q) = 44 THEN ParseMembers(str, q + 1, all)
  ELSE IF At(str, q) = 125 THEN [ok |-> TRUE, val |-> Obj(all), pos |-> q + 1]
  ELSE ParseFail

MembersAfter(str, key, r, acc) ==
  IF ~r.ok THEN ParseFail
  ELSE MembersNext(str, SkipWs(str, r.pos), Append(acc, [k |-> key, v |-> r.val]))

\* p is where the ":" of a member must be
MembersValue(str, key, p, acc) ==
  IF At(str, p) # 58 THEN ParseFail
  ELSE MembersAfter(str, key, ParseValue(str, p + 1), acc)

MembersColon(str, key, acc) ==
  IF ~key.ok THEN ParseFail
  ELSE MembersValue(str, key.val.s, SkipWs(str, key.pos), acc)

\* p is where the key of a member must start
MembersKey(str, p, acc) ==
  IF At(str, p) # 34 THEN ParseFail
  ELSE MembersColon(str, ParseStringBody(str, p + 1, <<>>), acc)

\* pos is at a member of a non-empty object; acc holds the members read so far
ParseMembers(str, pos, acc) == MembersKey(str, SkipWs(str, pos), acc)

\* p is the first index after "{" that holds no whitespace
ObjectAt(str, p) ==
  IF At(str, p) = 125 THEN [ok |-> TRUE, val |-> Obj(<<>>), pos |-> p + 1]
  ELSE ParseMembers(str, p, <<>>)

\* p is the first index after "[" that holds no whitespace
ArrayAt(str, p) ==
  IF At(str, p) = 93 THEN [ok |-> TRUE, val |-> Arr(<<>>), pos |-> p + 1]
  ELSE ParseElements(str, p, <<>>)

\* pos is the first character of a value
ValueAt(str, pos) ==
  IF At(str, pos) = 123 THEN ObjectAt(str, SkipWs(str, pos + 1))
  ELSE IF At(str, pos) = 91 THEN ArrayAt(str, SkipWs(str, pos + 1))
  ELSE IF At(str, pos) = 34 THEN ParseStringBody(str, pos + 1, <<>>)
  ELSE IF At(str, pos) = 45 \/ At(str, pos) \in 48..57 THEN ParseNumber(str, pos)
  ELSE IF StartsWith(str, pos, S("true"))
  THEN [ok |-> TRUE, val |-> Bool(TRUE), pos |-> pos + 4]
  ELSE IF StartsWith(str, pos, S("false"))
  THEN [ok |-> TRUE, val |-> Bool(FALSE), pos |-> pos + 5]
  ELSE IF StartsWith(str, pos, S("null"))
  THEN [ok |-> TRUE, val |-> Null, pos |-> pos + 4]
  ELSE ParseFail

ParseValue(str, pos) == ValueAt(str, SkipWs(str, pos))

\* the whole text must be one value, then only whitespace
ParseEnd(str, r) ==
  IF r.ok /\ SkipWs(str, r.pos) = Len(str) + 1
  THEN [ok |-> TRUE, val |-> r.val]
  ELSE [ok |-> FALSE, val |-> Undefined]

\* JSON.parse(text)
JSONParse(str) == ParseEnd(str, ParseValue(str, 1))

(***************************************************************************)
(* URLSearchParams: the query string is split on "&", each pair on its     *)
(* first "=", "+" reads as a space and %XX as the character with that code.*)
(***************************************************************************)
HexValue(c) ==
  IF c \in 48..57 THEN c - 48
  ELSE IF c \in 65..70 THEN c - 55
  ELSE IF c \in 97..102 THEN c - 87
  ELSE -1

\* str[i] starts an escape %XX
IsEscapeAt(str, i) ==
  /\ i >= 1 /\ i + 2 <= Len(str)
  /\ str[i] = 37 /\ HexValue(str[i + 1]) >= 0 /\ HexValue(str[i + 2]) >= 0

\* the decoding of a name or a value; a hex digit is never "%", so the
\* escapes of a string do not overlap
FormDecode(str) ==
  Flatten([i \in 1..Len(str) |->
    IF IsEscapeAt(str, i) THEN << HexValue(str[i + 1]) * 16 + HexValue(str[i + 2]) >>
    ELSE IF IsEscapeAt(str, i - 1) \/ IsEscapeAt(str, i - 2) THEN <<>>
    ELSE IF str[i] = 43 THEN << 32 >>
    ELSE << str[i] >>])

\* the index of the first c in str at or after pos, Len(str) + 1 when there is none
IndexOf(str, c, pos) ==
  LET hits == {i \in pos..(Len(str) + 1) : i = Len(str) + 1 \/ str[i] = c}
  IN  CHOOSE i \in hits : \A j \in hits : i <= j

RECURSIVE SearchParamsGet(_, _)

\* pair is the text before the first "&" of a query, eq the index of its first "="
PairGet(pair, eq, rest, name) ==
  IF pair # <<>> /\ FormDecode(SubSeq(pair, 1, eq - 1)) = name
  THEN [found |-> TRUE, v |-> FormDecode(SubSeq(pair, eq + 1, Len(pair)))]
  ELSE SearchParamsGet(rest, name)

FirstPairGet(query, amp, name) ==
  PairGet(SubSeq(query, 1, amp - 1),
          IndexOf(SubSeq(query, 1, amp - 1), 61, 1),
          SubSeq(query, amp + 1, Len(query)), name)

\* the value of the first pair of `query` named `name`; found = FALSE is null
SearchParamsGet(query, name) ==
  IF query = <<>> THEN [found |-> FALSE, v |-> <<>>]
  ELSE FirstPairGet(query, IndexOf(query, 38, 1), name)

\* new URLSearchParams(search).get(name)
URLSearchParamsGet(searchText, name) ==
  SearchParamsGet(IF searchText # <<>> /\ searchText[1] = 63 THEN Tail(searchText)
                  ELSE searchText, name)

(***************************************************************************)
(* The catalog and the component.                                          *)
(***************************************************************************)
\* const timezones; an offset in hours is the fraction num / den
timezones == <<
  [id |-> "UTC", name |-> "Universal Time Coordinated", offset |-> [num |-> 0,  den |-> 1]],
  [id |-> "IST", name |-> "India Standard Time",        offset |-> [num |-> 11, den |-> 2]],
  [id |-> "EST", name |-> "Eastern Standard Time",      offset |-> [num |-> -5, den |-> 1]],
  [id |-> "PST", name |-> "Pacific Standard Time",      offset |-> [num |-> -8, den |-> 1]] >>

CatalogIds == {timezones[i].id : i \in 1..Len(timezones)}

\* array.includes(id) for an array of values and a string id
Includes(items, id) == \E i \in 1..Len(items) : StrictEquals(items[i], Str(id))

\* timezones.filter(tz => !ids.includes(tz.id))
TimezonesNotIn(items) ==
  LET Absent(tz) == ~Includes(items, tz.id)
  IN  SelectSeq(timezones, Absent)

\* timezones.find(tz => tz.id === tzId)
FindTimezone(tzId) ==
  IF \E i \in 1..Len(timezones) : StrictEquals(Str(timezones[i].id), tzId)
  THEN timezones[CHOOSE i \in 1..Len(timezones) : StrictEquals(Str(timezones[i].id), tzId)]
  ELSE Undefined

VARIABLES
  selectedTime,        \* useState(new Date())
  activeTimezones,     \* useState(['UTC', 'IST']): an array of values
  availableTimezones,  \* the catalog entries offered by the select
  isDarkMode,
  shareableLink,       \* '' or the link text
  isLoading,
  error,
  sliderValue,
  search,              \* window.location.search
  slides,              \* number of slider changes so far (bounded by MaxSlides)
  tokenKind,           \* history: how the `state` parameter of search was built
  picked,              \* history: the time last set by the date picker
  lastOp,              \* history: the last list operation and the list before it
  prevAdd,             \* history: the operation before lastOp, when it was an add
  shared               \* history: the state the share link was generated from

compVars == << selectedTime, activeTimezones, availableTimezones, isDarkMode,
               shareableLink, isLoading, error, sliderValue >>

histVars == << lastOp, prevAdd, shared >>

vars == << selectedTime, activeTimezones, availableTimezones, isDarkMode,
           shareableLink, isLoading, error, sliderValue, search, slides,
           tokenKind, picked, lastOp, prevAdd, shared >>

(***************************************************************************)
(* The environment: the clock, the user's inputs and the page URL.         *)
(***************************************************************************)
\* new Date() when the component is constructed: 2024-01-15T12:34:56.789Z
NowTimes == { DateOf(19737, 45296789) }

MaxPick == 0

\* the instants the date picker hands over: 2024-02-29T00:00Z, 1969-12-31T23:59Z, ...
PickTimes == { DateOf(19782 - 19783 * k, 86340000 * (k % 2)) : k \in 0..MaxPick }

\* slider positions, in minutes (the range input spans -1440..1440)
SliderValues == { -1440, 90 }

\* date.getTimezoneOffset() of the host, in minutes: UTC+5:30, UTC, UTC-5
HostOffsets == { -330, 0, 300 }

TokenTime == "2000-02-29T23:59:59.999Z"

\* ?state=<btoa(text)>
SearchOfText(text) == S("?state=") \o btoa(S(text)).v

\* the page URLs the model starts from, each with the way its token was built
StartupUrls == {
  [kind |-> "absent",        search |-> <<>>],
  [kind |-> "empty",         search |-> S("?state=")],
  [kind |-> "not-base64",    search |-> S("?state=not-base64!!")],
  [kind |-> "not-json",      search |-> SearchOfText("hello")],
  [kind |-> "not-object",    search |-> SearchOfText("null")],
  [kind |-> "missing-field", search |-> SearchOfText("{\"time\":\"" \o TokenTime \o "\"}")],
  [kind |-> "invalid-time",  search |->
     SearchOfText("{\"time\":\"garbage\",\"timezones\":[\"UTC\"]}")],
  [kind |-> "not-string-list", search |->
     SearchOfText("{\"time\":\"" \o TokenTime \o "\",\"timezones\":\"UTC\"}")],
  [kind |-> "not-string-list", search |->
     SearchOfText("{\"time\":\"" \o TokenTime \o "\",\"timezones\":[\"UTC\",7]}")],
  [kind |-> "unknown-id",    search |->
     SearchOfText("{\"time\":\"" \o TokenTime \o "\",\"timezones\":[\"UTC\",\"XYZ\"]}")],
  [kind |-> "duplicate-id",  search |->
     SearchOfText("{\"time\":\"" \o TokenTime \o "\",\"timezones\":[\"IST\",\"IST\"]}")],
  [kind |-> "valid",         search |->
     SearchOfText("{\"time\":\"" \o TokenTime \o "\",\"timezones\":[\"EST\",\"PST\",\"UTC\"]}")] }

LoadError == "Failed to load shared configuration. Using default settings."

DecodeFail == [ok |-> FALSE, time |-> NaN, timezones |-> <<>>]

\* lines 36-41: the format check, then the values the three setters receive
DecodeFields(time, zones) ==
  IF ~time.ok \/ ~zones.ok THEN DecodeFail
  ELSE IF ~Truthy(time.v) \/ zones.v.t # "array" THEN DecodeFail
  ELSE [ok |-> TRUE, time |-> NewDate(time.v), timezones |-> zones.v.items]

DecodeParsed(parsed) ==
  IF ~parsed.ok THEN DecodeFail
  ELSE DecodeFields(GetProperty(parsed.val, "time"), GetProperty(parsed.val, "timezones"))

DecodeBinary(bin) ==
  IF ~bin.ok THEN DecodeFail ELSE DecodeParsed(JSONParse(bin.v))

\* lines 35-41: JSON.parse(atob(encodedState)) and what follows in the try
\* block; ok = FALSE is any exception thrown inside it
DecodeState(encodedState) == DecodeBinary(atob(encodedState))

\* present is `if (encodedState)`: the parameter is there and is not ''
ReadEncoded(encodedState) ==
  IF encodedState.found /\ encodedState.v # <<>>
  THEN [present |-> TRUE, decoded |-> DecodeState(encodedState.v)]
  ELSE [present |-> FALSE, decoded |-> DecodeFail]

\* lines 31-41: what the effect reads from the URL
ReadState(searchText) == ReadEncoded(URLSearchParamsGet(searchText, S("state")))

\* lines 33-47 for what was read
ApplyRead(read) ==
  /\ IF read.present
     THEN IF read.decoded.ok
          THEN /\ selectedTime' = read.decoded.time
               /\ activeTimezones' = read.decoded.timezones
               /\ availableTimezones' = TimezonesNotIn(read.decoded.timezones)
               /\ error' = error
               /\ picked' = [set |-> FALSE, time |-> NaN]
          ELSE /\ error' = LoadError
               /\ UNCHANGED << selectedTime, activeTimezones,
                               availableTimezones, picked >>
     ELSE UNCHANGED << selectedTime, activeTimezones, availableTimezones,
                       error, picked >>
  /\ isLoading' = FALSE

\* the body of useEffect (lines 28-47); its state updates are applied together
Effect == ApplyRead(ReadState(search))

\* line 165-166: a row whose id is not in the catalog makes the render throw
\* (timezone is undefined), which unmounts the component
RenderThrows ==
  /\ ~isLoading
  /\ \E i \in 1..Len(activeTimezones) : FindTimezone(activeTimezones[i]) = Undefined

\* the main view is on screen and its handlers can be called
Rendered == ~isLoading /\ ~RenderThrows

\* the first run of the effect, after the first render
mount ==
  /\ isLoading
  /\ Effect
  /\ UNCHANGED << isDarkMode, shareableLink, sliderValue, search, slides, tokenKind >>

handleTimeChange(newTime) ==
  /\ Rendered
  /\ selectedTime' = newTime
  /\ sliderValue' = 0
  /\ picked' = [set |-> TRUE, time |-> newTime]
  /\ UNCHANGED << activeTimezones, availableTimezones, isDarkMode, shareableLink,
                  isLoading, error, search, slides, tokenKind >>

MaxSlides == 2

handleSliderChange(value) ==
  /\ Rendered
  /\ slides < MaxSlides
  /\ slides' = slides + 1
  /\ sliderValue' = value
  /\ selectedTime' = AddMs(selectedTime, value * MsPerMinute)
  /\ UNCHANGED << activeTimezones, availableTimezones, isDarkMode, shareableLink,
                  isLoading, error, search, tokenKind, picked >>

\* tzId is the value of the chosen option: '' or the id of an available zone
\* an add that puts the new zone in front
addTimezoneFirst(tzId) ==
  /\ Rendered
  /\ IF tzId # ""
     THEN /\ activeTimezones' = << Str(tzId) >> \o activeTimezones
          /\ availableTimezones' =
               LET Other(tz) == tz.id # tzId IN SelectSeq(availableTimezones, Other)
     ELSE UNCHANGED << activeTimezones, availableTimezones >>
  /\ UNCHANGED << selectedTime, isDarkMode, shareableLink, isLoading, error,
                  sliderValue, search, slides, tokenKind, picked >>

addTimezone(tzId) ==
  /\ Rendered
  /\ IF tzId # ""
     THEN /\ activeTimezones' = Append(activeTimezones, Str(tzId))
          /\ availableTimezones' =
               LET Other(tz) == tz.id # tzId IN SelectSeq(availableTimezones, Other)
     ELSE UNCHANGED << activeTimezones, availableTimezones >>
  /\ UNCHANGED << selectedTime, isDarkMode, shareableLink, isLoading, error,
                  sliderValue, search, slides, tokenKind, picked >>

\* a remove that does not give the zone back to the selector
removeTimezoneDropsZone(tzId) ==
  /\ Rendered
  /\ activeTimezones' =
       LET Other(id) == ~StrictEquals(id, tzId) IN SelectSeq(activeTimezones, Other)
  /\ UNCHANGED << selectedTime, availableTimezones, isDarkMode, shareableLink,
                  isLoading, error, sliderValue, search, slides, tokenKind, picked >>

\* tzId is the id of a rendered row
removeTimezone(tzId) ==
  /\ Rendered
  /\ activeTimezones' =
       LET Other(id) == ~StrictEquals(id, tzId) IN SelectSeq(activeTimezones, Other)
  /\ availableTimezones' = Append(availableTimezones, FindTimezone(tzId))
  /\ UNCHANGED << selectedTime, isDarkMode, shareableLink, isLoading, error,
                  sliderValue, search, slides, tokenKind, picked >>

\* a drag that exchanges the two places instead of moving one element
onDragEndSwap(result) ==
  /\ Rendered
  /\ IF ~result.hasDestination
     THEN UNCHANGED activeTimezones
     ELSE activeTimezones' =
            [activeTimezones EXCEPT
               ![result.source + 1] = activeTimezones[result.destination + 1],
               ![result.destination + 1] = activeTimezones[result.source + 1]]
  /\ UNCHANGED << selectedTime, availableTimezones, isDarkMode, shareableLink,
                  isLoading, error, sliderValue, search, slides, tokenKind, picked >>

\* items.splice(index, 1) and items.splice(index, 0, item), indices from 0
SpliceOut(items, index) ==
  SubSeq(items, 1, index) \o SubSeq(items, index + 2, Len(items))

SpliceIn(items, index, item) ==
  SubSeq(items, 1, index) \o << item >> \o SubSeq(items, index + 1, Len(items))

\* result = [hasDestination, source, destination]
onDragEnd(result) ==
  /\ Rendered
  /\ IF ~result.hasDestination
     THEN UNCHANGED activeTimezones
     ELSE LET reorderedItem == activeTimezones[result.source + 1]
              items         == SpliceOut(activeTimezones, result.source)
          IN  activeTimezones' = SpliceIn(items, result.destination, reorderedItem)
  /\ UNCHANGED << selectedTime, availableTimezones, isDarkMode, shareableLink,
                  isLoading, error, sliderValue, search, slides, tokenKind, picked >>

Reverse(items) == <<>> \o [i \in 1..Len(items) |-> items[Len(items) + 1 - i]]

reverseOrder ==
  /\ Rendered
  /\ activeTimezones' = Reverse(activeTimezones)
  /\ UNCHANGED << selectedTime, availableTimezones, isDarkMode, shareableLink,
                  isLoading, error, sliderValue, search, slides, tokenKind, picked >>

\* setIsDarkMode(!isDarkMode); the effect depends on [isDarkMode] and runs again
toggleDarkMode ==
  /\ Rendered
  /\ isDarkMode' = ~isDarkMode
  /\ Effect
  /\ UNCHANGED << shareableLink, sliderValue, search, slides, tokenKind >>

\* getTimeInTimezone(date, tzOffset); hostOffset is date.getTimezoneOffset()
getTimeInTimezone(date, tzOffset, hostOffset) ==
  AddMs(date, hostOffset * MsPerMinute + (MsPerHour * tzOffset.num) \div tzOffset.den)

\* window.location.origin and pathname of the page
PageUrl == S("https://example.org/app/")

\* lines 97-101 for the text toISOString returned
EncodeISO(iso, zones) ==
  IF ~iso.ok THEN [ok |-> FALSE, v |-> <<>>]
  ELSE btoa(JSONStringify(Obj(<< [k |-> "time", v |-> Str(Text(iso.v))],
                                 [k |-> "timezones", v |-> Arr(zones)] >>)))

\* the token of lines 97-101; ok = FALSE when toISOString or btoa throws
EncodeState(time, zones) == EncodeISO(toISOString(time), zones)

\* line 102-103 for the token
SetLink(encodedState) ==
  IF encodedState.ok
  THEN shareableLink' = PageUrl \o S("?state=") \o encodedState.v
  ELSE UNCHANGED shareableLink

generateShareableLink ==
  /\ Rendered
  /\ SetLink(EncodeState(selectedTime, activeTimezones))
  /\ UNCHANGED << selectedTime, activeTimezones, availableTimezones, isDarkMode,
                  isLoading, error, sliderValue, search, slides, tokenKind, picked >>

DefaultZones == << Str("UTC"), Str("IST") >>

NoOp == [op |-> "none", id |-> "", from |-> -1, to |-> -1, before |-> <<>>]

NotShared == [set |-> FALSE, time |-> NaN, zones |-> <<>>]

\* the component as constructed (lines 15-25), before the effect has run
Construct(now) ==
  /\ selectedTime = now
  /\ activeTimezones = DefaultZones
  /\ availableTimezones = TimezonesNotIn(DefaultZones)
  /\ isDarkMode = FALSE
  /\ shareableLink = <<>>
  /\ isLoading = TRUE
  /\ error = ""
  /\ sliderValue = 0

Init ==
  /\ \E now \in NowTimes : Construct(now)
  /\ \E url \in StartupUrls : search = url.search /\ tokenKind = url.kind
  /\ slides = 0
  /\ picked = [set |-> FALSE, time |-> NaN]
  /\ lastOp = NoOp
  /\ prevAdd = NoOp
  /\ shared = NotShared

(***************************************************************************)
(* The page session: the effect, then the user's actions in any order.     *)
(***************************************************************************)
Mount == mount /\ UNCHANGED histVars

HandleTimeChange == \E newTime \in PickTimes : handleTimeChange(newTime) /\ UNCHANGED histVars

HandleSliderChange == \E value \in SliderValues : handleSliderChange(value) /\ UNCHANGED histVars

\* the options of the select: the placeholder and the available zones
SelectOptions == {""} \cup {availableTimezones[i].id : i \in 1..Len(availableTimezones)}

\* what a drag can report: any row dropped on any position, or outside the list
DragResults ==
  [hasDestination : {TRUE},
   source : 0..(Len(activeTimezones) - 1),
   destination : 0..(Len(activeTimezones) - 1)]
  \cup [hasDestination : {FALSE}, source : 0..(Len(activeTimezones) - 1), destination : {-1}]

AddTimezone == \E tzId \in SelectOptions : addTimezone(tzId) /\ UNCHANGED histVars

RemoveTimezone ==
  \E i \in 1..Len(activeTimezones) : removeTimezone(activeTimezones[i]) /\ UNCHANGED histVars

OnDragEnd == \E result \in DragResults : onDragEnd(result) /\ UNCHANGED histVars

ReverseOrder == reverseOrder /\ UNCHANGED histVars

ToggleDarkMode == toggleDarkMode /\ UNCHANGED histVars

Next ==
  \/ Mount
  \/ HandleTimeChange
  \/ HandleSliderChange
  \/ AddTimezone
  \/ RemoveTimezone
  \/ OnDragEnd
  \/ ReverseOrder
  \/ ToggleDarkMode

Spec == Init /\ [][Next]_vars

(***************************************************************************)
(* The zone lists alone: the effect, the list handlers and the theme       *)
(* toggle (which runs the effect again), from every start-up URL.          *)
(***************************************************************************)
NextZones ==
  \/ Mount
  \/ AddTimezone
  \/ RemoveTimezone
  \/ OnDragEnd
  \/ ReverseOrder
  \/ ToggleDarkMode

SpecZones == Init /\ [][NextZones]_vars

(***************************************************************************)
(* The list handlers with their history: lastOp is the last operation with *)
(* its arguments and the list it was applied to, prevAdd the operation     *)
(* before it when that was an add.                                         *)
(***************************************************************************)
Record(op, id, from, to) ==
  /\ lastOp' = [op |-> op, id |-> id, from |-> from, to |-> to,
                before |-> activeTimezones]
  /\ prevAdd' = IF lastOp.op = "add" THEN lastOp ELSE NoOp
  /\ UNCHANGED shared

\* the start-up URLs whose session shows the list
ListKinds == {"absent", "duplicate-id", "valid"}

InitList == Init /\ tokenKind \in ListKinds

ListMount == mount /\ Record("mount", "", -1, -1)

ListAdd ==
  \E tzId \in SelectOptions :
    addTimezone(tzId) /\ Record(IF tzId = "" THEN "placeholder" ELSE "add", tzId, -1, -1)

ListRemove ==
  \E i \in 1..Len(activeTimezones) :
    removeTimezone(activeTimezones[i]) /\ Record("remove", activeTimezones[i].s, -1, -1)

ListDrag ==
  \E result \in DragResults :
    onDragEnd(result) /\ Record("drag", "", result.source, result.destination)

ListReverse == reverseOrder /\ Record("reverse", "", -1, -1)

NextList ==
  \/ ListMount
  \/ ListAdd
  \/ ListRemove
  \/ ListDrag
  \/ ListReverse

SpecList == InitList /\ [][NextList]_vars

(***************************************************************************)
(* Sharing: a session in any state s produces its link, and the link is    *)
(* opened in a new page, whose effect decodes it.                          *)
(***************************************************************************)
RECURSIVE Arrangements(_)
\* the duplicate-free lists made of all the elements of a set
Arrangements(set) ==
  IF set = {} THEN { <<>> }
  ELSE UNION { { << x >> \o rest : rest \in Arrangements(set \ {x}) } : x \in set }

\* every duplicate-free list of catalog ids
ZoneLists ==
  UNION { Arrangements({Str(id) : id \in ids}) : ids \in SUBSET CatalogIds }

\* instants to share: 2024-01-15T12:34:56.789Z, 2000-02-29T23:59:59.999Z,
\* 1969-12-31T23:59:59.999Z, -000001-12-31T00:00:00.001Z, +010000-01-01T00:00:00.000Z
ShareTimes ==
  { DateOf(19737, 45296789), DateOf(11016, 86399999), DateOf(-1, 86399999),
    DateOf(-719529, 1), DateOf(2932897, 0) }

\* a rendered session without a token, in the state s = (time, zones)
InitShare ==
  /\ selectedTime \in ShareTimes
  /\ activeTimezones \in ZoneLists
  /\ availableTimezones = TimezonesNotIn(activeTimezones)
  /\ isDarkMode = FALSE
  /\ shareableLink = <<>>
  /\ isLoading = FALSE
  /\ error = ""
  /\ sliderValue = 0
  /\ search = <<>>
  /\ tokenKind = "absent"
  /\ slides = 0
  /\ picked = [set |-> FALSE, time |-> NaN]
  /\ lastOp = NoOp
  /\ prevAdd = NoOp
  /\ shared = NotShared

\* the query of a URL: from its first "?" on
QueryOf(url) == SubSeq(url, IndexOf(url, 63, 1), Len(url))

GenerateShareableLink ==
  /\ generateShareableLink
  /\ shared' = IF EncodeState(selectedTime, activeTimezones).ok
               THEN [set |-> TRUE, time |-> selectedTime, zones |-> activeTimezones]
               ELSE shared
  /\ UNCHANGED << lastOp, prevAdd >>

\* the link is opened: a new component is constructed on the link's URL
OpenSharedLink ==
  /\ shareableLink # <<>>
  /\ search' = QueryOf(shareableLink)
  /\ tokenKind' = "shared"
  /\ \E now \in NowTimes : selectedTime' = now
  /\ activeTimezones' = DefaultZones
  /\ availableTimezones' = TimezonesNotIn(DefaultZones)
  /\ isDarkMode' = FALSE
  /\ shareableLink' = <<>>
  /\ isLoading' = TRUE
  /\ error' = ""
  /\ sliderValue' = 0
  /\ slides' = 0
  /\ picked' = [set |-> FALSE, time |-> NaN]
  /\ UNCHANGED histVars

NextShare ==
  \/ GenerateShareableLink
  \/ OpenSharedLink
  \/ Mount

SpecShare == InitShare /\ [][NextShare]_vars

(***************************************************************************)
(* Properties.                                                             *)
(***************************************************************************)
ZoneList(ids) == <<>> \o [i \in 1..Len(ids) |-> Str(ids[i])]

DuplicateFree(items) ==
  \A i, j \in 1..Len(items) : i # j => items[i] # items[j]

\* the string ids held by an array of values
StringIds(items) == {items[i].s : i \in {j \in 1..Len(items) : items[j].t = "string"}}

\* the effect has just run for the first time
Started == isLoading /\ ~isLoading'

\* the token kinds that section 4.2 of the specification calls invalid
InvalidKinds ==
  {"not-base64", "not-json", "not-object", "missing-field", "invalid-time",
   "not-string-list"}

\* C1: a session opened from the link generated for s = (instant, zone order)
\* shows, once loaded, s.zoneOrder, s.instant to the millisecond, and no
\* error message.
C1_RoundTrip ==
  (tokenKind = "shared" /\ ~isLoading) =>
    /\ activeTimezones = shared.zones
    /\ selectedTime = shared.time
    /\ error = ""

\* a loaded shared session with all four zones in another order than the
\* catalog's and an instant that has milliseconds and is not the new page's clock
C1_Witness ==
  /\ tokenKind = "shared" /\ ~isLoading
  /\ shared.set /\ shared.zones = ZoneList(<< "PST", "IST", "UTC", "EST" >>)
  /\ activeTimezones = shared.zones
  /\ shared.time = DateOf(-719529, 1)
  /\ selectedTime = shared.time

\* C2: start-up has three outcomes: no token gives the default state and no
\* error; a valid token replaces the instant and the list and gives no
\* error; an invalid token gives the error and leaves the instant and both
\* lists at their defaults.  In each case loading ends and the main view is
\* rendered.
C2_StartupOutcomes ==
  [][ Started =>
        /\ tokenKind = "absent" =>
             /\ error' = ""
             /\ UNCHANGED << selectedTime, activeTimezones, availableTimezones >>
        /\ tokenKind = "valid" =>
             /\ error' = ""
             /\ selectedTime' = DateParse(S(TokenTime))
             /\ activeTimezones' = ZoneList(<< "EST", "PST", "UTC" >>)
        /\ tokenKind \in InvalidKinds =>
             /\ error' # ""
             /\ UNCHANGED << selectedTime, activeTimezones, availableTimezones >>
        /\ tokenKind \in {"absent", "valid"} \cup InvalidKinds => Rendered'
    ]_vars

\* C3: the start-up decode rejects every token that is not base64, not a JSON
\* object, lacks `time` or `timezones`, has a `time` that is no valid
\* instant, or has a `timezones` that is no list of strings: the error
\* message is set and nothing of the token is applied.
C3_RejectsInvalid ==
  [][ (Started /\ tokenKind \in InvalidKinds) =>
        /\ error' = LoadError
        /\ UNCHANGED << selectedTime, activeTimezones, availableTimezones >>
    ]_vars

\* C4: in every reachable state the active list holds no duplicate and only
\* ids of the catalog.
C4_ActiveListValid ==
  /\ DuplicateFree(activeTimezones)
  /\ \A i \in 1..Len(activeTimezones) :
       activeTimezones[i].t = "string" /\ activeTimezones[i].s \in CatalogIds

\* C5: in every reachable state the available list holds only catalog
\* entries and its ids are exactly the catalog ids that are not active.
C5_AvailableIsComplement ==
  /\ \A i \in 1..Len(availableTimezones) :
       \E j \in 1..Len(timezones) : availableTimezones[i] = timezones[j]
  /\ {availableTimezones[i].id : i \in 1..Len(availableTimezones)}
       = CatalogIds \ StringIds(activeTimezones)

\* a dark session of the valid token in which two of its zones were removed
C5_Witness ==
  /\ ~isLoading /\ tokenKind = "valid" /\ isDarkMode
  /\ activeTimezones = ZoneList(<< "UTC" >>)
  /\ Len(availableTimezones) = 3
  /\ availableTimezones[1].id = "IST"

\* C6: for every rendered row, the timestamp getTimeInTimezone returns is the
\* selected instant plus the zone's offset (offset * 60 minutes), whatever
\* the host's timezone offset is.
C6_OffsetExact ==
  (Rendered /\ ~selectedTime.nan) =>
    \A host \in HostOffsets : \A i \in 1..Len(activeTimezones) :
      LET zone == FindTimezone(activeTimezones[i])
          shown == getTimeInTimezone(selectedTime, zone.offset, host)
      IN  /\ ~shown.nan
          /\ DiffMinutes(shown, selectedTime) * zone.offset.den = 60 * zone.offset.num

\* C7: toggling the theme leaves the selected instant, both lists and the
\* error message unchanged.
C7_ToggleChangesNothingElse ==
  [][ (isDarkMode' # isDarkMode) =>
        UNCHANGED << selectedTime, activeTimezones, availableTimezones, error >>
    ]_vars

\* the list li without its i-th element (i from 1)
Without(li, i) == SubSeq(li, 1, i - 1) \o SubSeq(li, i + 1, Len(li))

\* number of places of li that hold x
Count(li, x) == Cardinality({i \in 1..Len(li) : li[i] = x})

\* C8: on a duplicate-free list L of catalog ids, adding an id x that is not
\* in L puts x at the end of L, and removing x right after gives L back, in
\* the same order.
C8_AddThenRemove ==
  ( /\ lastOp.op = "remove" /\ prevAdd.op = "add" /\ lastOp.id = prevAdd.id
    /\ DuplicateFree(prevAdd.before)
    /\ prevAdd.id \notin StringIds(prevAdd.before) ) =>
      /\ lastOp.before = Append(prevAdd.before, Str(prevAdd.id))
      /\ activeTimezones = prevAdd.before

\* EST was added to [PST, UTC, IST] and removed again
C8_Witness ==
  /\ lastOp.op = "remove" /\ prevAdd.op = "add"
  /\ lastOp.id = "EST" /\ prevAdd.id = "EST"
  /\ prevAdd.before = ZoneList(<< "PST", "UTC", "IST" >>)
  /\ activeTimezones = prevAdd.before

\* C9: a drag from index `from` to index `to` gives a permutation of the
\* list in which the dragged element is at `to` and the others keep their
\* order; moving index 0 of [UTC, IST, EST] to index 2 gives
\* [IST, EST, UTC]; a drop without destination changes nothing.
C9_DragMoves ==
  lastOp.op = "drag" =>
    IF lastOp.to = -1 THEN activeTimezones = lastOp.before
    ELSE /\ Len(activeTimezones) = Len(lastOp.before)
         /\ \A i \in 1..Len(lastOp.before) :
              Count(activeTimezones, lastOp.before[i])
                = Count(lastOp.before, lastOp.before[i])
         /\ activeTimezones[lastOp.to + 1] = lastOp.before[lastOp.from + 1]
         /\ Without(activeTimezones, lastOp.to + 1)
              = Without(lastOp.before, lastOp.from + 1)
         /\ ( /\ lastOp.before = ZoneList(<< "UTC", "IST", "EST" >>)
              /\ lastOp.from = 0 /\ lastOp.to = 2 ) =>
              activeTimezones = ZoneList(<< "IST", "EST", "UTC" >>)

\* the first of [UTC, IST, EST] was dragged to the last place
C9_Witness ==
  /\ lastOp.op = "drag" /\ lastOp.from = 0 /\ lastOp.to = 2
  /\ lastOp.before = ZoneList(<< "UTC", "IST", "EST" >>)
  /\ activeTimezones = ZoneList(<< "IST", "EST", "UTC" >>)

\* C10: after the date picker set the time to T and the slider was moved any
\* number of times, ending at v minutes, the selected instant is T + v minutes.
C10_SliderIsOffsetFromPicked ==
  picked.set => selectedTime = AddMs(picked.time, sliderValue * MsPerMinute)

=============================================================================
